---- MODULE Spec2Model ----
(***************************************************************************)
(* Model of gateware/nexys_base.py (LiteX SoC for the Nexys Video board).  *)
(*                                                                         *)
(* Two phases of the program are modelled, as two specifications:          *)
(*   Spec       the reset network that _CRG describes, once realised in    *)
(*              hardware: the PLL lock output, the cpu_reset pin, the two  *)
(*              AsyncResetSynchronizers and the clk200 countdown that      *)
(*              drives the IDELAYCTRL reset (ic_reset);                    *)
(*   BuildSpec  the elaboration pass: the class bodies that merge the      *)
(*              csr/interrupt/memory maps, then main() constructing        *)
(*              BaseSoC or MiniSoC statement by statement.                 *)
(***************************************************************************)
EXTENDS Integers, Sequences, FiniteSets, TLC

VARIABLES
    \* ---- hardware (Spec) ----
    pll_locked,        \* o_LOCKED of PLLE2_BASE (line 61), 0/1
    rst,               \* platform.request("cpu_reset") (line 51), 0/1
    sys_rst_meta,      \* first flop of AsyncResetSynchronizer(cd_sys, ...)
    sys_rst,           \* cd_sys.rst
    clk200_rst_meta,   \* first flop of AsyncResetSynchronizer(cd_clk200, ...)
    clk200_rst,        \* cd_clk200.rst
    reset_counter,     \* Signal(4, reset=15) (line 96)
    ic_reset,          \* Signal(reset=1) (line 97), i_RST of IDELAYCTRL
    div_phase,         \* clk200 edges since the last cd_sys edge
    \* ---- observers of the hardware run (history only, never read by it) ----
    lockTicks,         \* clk200 edges since pll_locked last changed
    heldTicks,         \* clk200 edges since the last edge that applied cd_clk200.rst
    stableTicks,       \* clk200 edges since pll_locked or rst last changed
    lostSinceRelease,  \* a lock_lost event happened since ic_reset last fell
    \* ---- elaboration (BuildSpec) ----
    SoCSDRAM_csr_map,        \* SoCSDRAM.csr_map, as imported (line 12)
    SoCSDRAM_interrupt_map,  \* SoCSDRAM.interrupt_map
    SoCSDRAM_mem_map,        \* SoCSDRAM.mem_map
    BaseSoC_csr_map,         \* BaseSoC.csr_map (lines 108-113)
    MiniSoC_csr_map,         \* MiniSoC.csr_map (lines 139-143)
    MiniSoC_interrupt_map,   \* MiniSoC.interrupt_map (lines 145-148)
    MiniSoC_mem_map,         \* MiniSoC.mem_map (lines 150-153)
    mip,                     \* next statement of the module body
    pc,                      \* "import", "ctor", "constructed", "done"
    ip,                      \* next statement of the constructor running
    args,                    \* parser.parse_args() (line 198)
    cls,                     \* the class main() picked (line 200)
    submodules,              \* self.submodules.<name>, in order of assignment
    pll,                     \* parameters of the PLLE2_BASE instance, <<>> before
    clock_domains,           \* clock domain |-> PLL output that drives it
    sdram,                   \* register_sdram() arguments, as a sequence
    wb_slaves,               \* add_wb_slave() decoders, as their addresses
    memory_regions,          \* add_memory_region() calls
    constants,               \* add_constant() calls, as <<name, value>>
    kept,                    \* clocks under Keep()
    platform_commands,       \* lines given to add_platform_command()
    built,                   \* builder.build() ran
    loaded                   \* prog.load_bitstream() ran

hwvars == <<pll_locked, rst, sys_rst_meta, sys_rst, clk200_rst_meta, clk200_rst,
            reset_counter, ic_reset, div_phase>>
obsvars == <<lockTicks, heldTicks, stableTicks, lostSinceRelease>>
bvars == <<SoCSDRAM_csr_map, SoCSDRAM_interrupt_map, SoCSDRAM_mem_map,
           BaseSoC_csr_map, MiniSoC_csr_map, MiniSoC_interrupt_map, MiniSoC_mem_map,
           mip, pc, ip, args, cls, submodules, pll, clock_domains, sdram, wb_slaves,
           memory_regions, constants, kept, platform_commands, built, loaded>>
vars == <<hwvars, obsvars, bvars>>

\* ---------------------------------------------------------------- bounds
\* The observers saturate here; the countdown itself is bounded by its width.
MaxTicks == 32

Min(a, b) == IF a < b THEN a ELSE b

\* ------------------------------------------------------ PLLE2_BASE (59-87)
CLKFBOUT_MULT == 8
DIVCLK_DIVIDE == 1
CLKOUT0_DIVIDE == 8
CLKOUT1_DIVIDE == 4
CLKOUT2_DIVIDE == 4
CLKOUT3_DIVIDE == 4
CLKOUT0_PHASE == 0
CLKOUT1_PHASE == 0
\* Faulty variant: the strobe output a quarter period off instead.
CLKOUT2_PHASE_quarter == 45 + 45
CLKOUT2_PHASE == 135
CLKOUT3_PHASE == 0

\* cd_clk200 edges per cd_sys edge: both are dividers of the one VCO.
Clk200PerSys == CLKOUT0_DIVIDE \div CLKOUT3_DIVIDE

\* Whole cycles of the reference clock (clk100) spanned by n cycles of clk200,
\* whose frequency is reference * CLKFBOUT_MULT / (DIVCLK_DIVIDE * CLKOUT3_DIVIDE).
RefCycles(n) == (n * DIVCLK_DIVIDE * CLKOUT3_DIVIDE) \div CLKFBOUT_MULT

\* ------------------------------------------- reset synchronizers (92-93)
\* AsyncResetSynchronizer(self.cd_sys, ~pll_locked | ~rst)
AsyncReset_sys(locked, r) == IF locked = 0 \/ r = 0 THEN 1 ELSE 0

\* Faulty variant: the clk200 synchronizer not watching the PLL lock.
AsyncReset_clk200_NoLock(locked, r) == IF r = 1 THEN 1 ELSE 0

\* AsyncResetSynchronizer(self.cd_clk200, ~pll_locked | rst)
AsyncReset_clk200(locked, r) == IF locked = 0 \/ r = 1 THEN 1 ELSE 0

\* The synchronizer is two flops with asynchronous preset, D of the first tied
\* to 0: the preset forces both to 1 at once, a clock edge shifts the 0 in.
\* Presetting: the effect of the asynchronous input on <<meta, out>>.
Preset(async, meta, out) == IF async = 1 THEN <<1, 1>> ELSE <<meta, out>>
\* Clocking: the effect of one edge of the domain's clock on <<meta, out>>.
Shift(async, meta, out) == IF async = 1 THEN <<1, 1>> ELSE <<0, meta>>

\* --------------------------------------------------- countdown (96-103)
\* Faulty variant: a 3-bit countdown.
reset_counter_reset_short == 8 - 1

\* reset_counter = Signal(4, reset=15)
reset_counter_reset == 15
\* ic_reset = Signal(reset=1)
ic_reset_reset == 1

\* Faulty variant: ic_reset released on the edge that takes the counter to 0.
sync_clk200_early(c, ic) ==
    IF c > 1 THEN <<c - 1, ic>> ELSE <<0, 0>>

\* Faulty variant: a free-running counter that toggles ic_reset on wrap-around.
sync_clk200_wrap(c, ic) ==
    IF c # 0 THEN <<c - 1, ic>> ELSE <<reset_counter_reset, 1 - ic>>

\* self.sync.clk200 += If(reset_counter != 0, reset_counter.eq(reset_counter - 1))
\*                     .Else(ic_reset.eq(0))          -> <<reset_counter', ic_reset'>>
sync_clk200(c, ic) ==
    IF c # 0 THEN <<(c - 1) % 16, ic>> ELSE <<c, 0>>

\* One edge of cd_clk200 on the registers of the domain: a sync domain with a
\* reset returns its registers to their reset values while cd_clk200.rst is 1.
clk200_edge(r, c, ic) ==
    IF r = 1 THEN <<reset_counter_reset, ic_reset_reset>> ELSE sync_clk200(c, ic)

\* ------------------------------------------------------------ hardware
\* After configuration: registers hold their reset values, the synchronizer
\* flops are preset, the PLL has not locked yet; the button is either way.
HWInit ==
    /\ pll_locked = 0
    /\ rst \in {0, 1}
    /\ sys_rst_meta = 1 /\ sys_rst = 1
    /\ clk200_rst_meta = 1 /\ clk200_rst = 1
    /\ reset_counter = reset_counter_reset
    /\ ic_reset = ic_reset_reset
    /\ div_phase = 0
    /\ lockTicks = 0 /\ heldTicks = 0 /\ stableTicks = 0
    /\ lostSinceRelease = FALSE

\* The asynchronous inputs changed to (l, r): both synchronizers see it at once.
InputChange(l, r) ==
    /\ pll_locked' = l
    /\ rst' = r
    /\ LET s == Preset(AsyncReset_sys(l, r), sys_rst_meta, sys_rst)
           k == Preset(AsyncReset_clk200(l, r), clk200_rst_meta, clk200_rst)
       IN /\ sys_rst_meta' = s[1] /\ sys_rst' = s[2]
          /\ clk200_rst_meta' = k[1] /\ clk200_rst' = k[2]
    /\ stableTicks' = 0
    /\ UNCHANGED <<reset_counter, ic_reset, div_phase, heldTicks>>
    /\ UNCHANGED bvars

\* lock_lost: o_LOCKED falls.
LockLost ==
    /\ pll_locked = 1
    /\ InputChange(0, rst)
    /\ lockTicks' = 0
    /\ lostSinceRelease' = TRUE

\* o_LOCKED rises.
LockGained ==
    /\ pll_locked = 0
    /\ InputChange(1, rst)
    /\ lockTicks' = 0
    /\ UNCHANGED lostSinceRelease

\* The cpu_reset pin changes level.
CpuResetChange ==
    /\ InputChange(pll_locked, 1 - rst)
    /\ UNCHANGED <<lockTicks, lostSinceRelease>>

\* One rising edge of cd_clk200.clk; every Clk200PerSys-th one is also an edge
\* of cd_sys.clk.  The PLL outputs may toggle while it is not locked.
Tick ==
    /\ LET k == Shift(AsyncReset_clk200(pll_locked, rst), clk200_rst_meta, clk200_rst)
           e == clk200_edge(clk200_rst, reset_counter, ic_reset)
       IN /\ clk200_rst_meta' = k[1] /\ clk200_rst' = k[2]
          /\ reset_counter' = e[1] /\ ic_reset' = e[2]
          /\ heldTicks' = IF clk200_rst = 1 THEN 0 ELSE Min(heldTicks + 1, MaxTicks)
          /\ lostSinceRelease' = IF ic_reset = 1 /\ e[2] = 0 THEN FALSE
                                 ELSE lostSinceRelease
    /\ div_phase' = (div_phase + 1) % Clk200PerSys
    /\ IF div_phase + 1 = Clk200PerSys
       THEN LET s == Shift(AsyncReset_sys(pll_locked, rst), sys_rst_meta, sys_rst)
            IN sys_rst_meta' = s[1] /\ sys_rst' = s[2]
       ELSE UNCHANGED <<sys_rst_meta, sys_rst>>
    /\ lockTicks' = Min(lockTicks + 1, MaxTicks)
    /\ stableTicks' = Min(stableTicks + 1, MaxTicks)
    /\ UNCHANGED <<pll_locked, rst>>
    /\ UNCHANGED bvars

\* ------------------------------------------------------------ elaboration
EmptyDict == [k \in {} |-> 0]

\* Faulty variant: an update that merges nothing.
DictUpdate_own_only(d, other) == d

\* dict.update: every key of other is set in d, to other's value.
DictUpdate(d, other) ==
    [k \in DOMAIN d \cup DOMAIN other |->
        IF k \in DOMAIN other THEN other[k] ELSE d[k]]

\* The dict displays of the class bodies.
BaseSoC_csr_map_display == [ddrphy |-> 17, dna |-> 18, xadc |-> 19]
MiniSoC_csr_map_display == [ethphy |-> 30, ethmac |-> 31]
MiniSoC_interrupt_map_display == [ethmac |-> 2]
\* Addresses and sizes are counted in units of 0x1000 bytes throughout (every
\* one in the source is a multiple of it): 0x30000000 is 0x30000.
MiniSoC_mem_map_display == [ethmac |-> 196608]

\* BaseSoC sets no interrupt_map or mem_map: the attribute is SoCSDRAM's.
BaseSoC_interrupt_map == SoCSDRAM_interrupt_map
BaseSoC_mem_map == SoCSDRAM_mem_map

\* The maps SoCSDRAM may bring: the library is imported, not part of this file.
\* "uart" is a name of the library alone; "dna" and "ethmac" are names this
\* file's classes give a value to as well.
ParentNames == {"uart", "dna", "ethmac"}
ParentCsr == [uart |-> 2, dna |-> 5, ethmac |-> 6]
ParentInterrupt == [uart |-> 0, dna |-> 3, ethmac |-> 1]
\* 0x20000000, 0x50000000, 0x70000000
ParentMem == [uart |-> 131072, dna |-> 327680, ethmac |-> 458752]
Restrict(f, S) == [k \in S |-> f[k]]
ParentMaps(f) == {Restrict(f, S) : S \in SUBSET ParentNames}

\* The statements of the module body that matter, in source order, then main().
ModuleBody ==
    <<"BaseSoC.csr_map=", "BaseSoC.csr_map.update",
      "MiniSoC.csr_map=", "MiniSoC.csr_map.update",
      "MiniSoC.interrupt_map=", "MiniSoC.interrupt_map.update",
      "MiniSoC.mem_map=", "MiniSoC.mem_map.update",
      "main">>

\* Faulty variant: a peripheral instantiated ahead of the clock/reset generator.
BaseSoC_init_dna_first ==
    <<"SoCSDRAM.__init__", "dna", "crg", "xadc", "ddrphy">>

\* The statements of BaseSoC.__init__ (lines 120-135).
BaseSoC_init ==
    <<"SoCSDRAM.__init__", "crg", "dna", "xadc", "ddrphy">>

\* The statements of MiniSoC.__init__ (lines 156-180), BaseSoC.__init__ first.
MiniSoC_init ==
    BaseSoC_init \o
    <<"ethphy", "ethmac", "add_wb_slave", "add_memory_region",
      "configure_ip_localip", "configure_ip_remoteip", "Keep",
      "add_platform_command">>

Ctor == IF cls = "MiniSoC" THEN MiniSoC_init ELSE BaseSoC_init

\* self.csr_map etc. on the instance: the attribute of its class.
Self_csr_map == IF cls = "MiniSoC" THEN MiniSoC_csr_map ELSE BaseSoC_csr_map
Self_mem_map == IF cls = "MiniSoC" THEN MiniSoC_mem_map ELSE BaseSoC_mem_map

\* integrated_main_ram_size: the default 0x8000, or 0 from the command line.
MainRamSizes == {0, 32768}

\* The shadow bit of the library's SoC (0x80000000; see the comment on line 151).
shadow_base == 524288

RECURSIVE BitOr(_, _)
BitOr(a, b) ==
    IF a = 0 THEN b
    ELSE IF b = 0 THEN a
    ELSE (IF a % 2 = 1 \/ b % 2 = 1 THEN 1 ELSE 0) + 2 * BitOr(a \div 2, b \div 2)

\* ip_type.upper() for the two ip_type strings main gives (lines 164-165).
Upper(s) == CASE s = "localip" -> "LOCALIP" [] s = "remoteip" -> "REMOTEIP"

\* configure_ip (lines 182-186): constant <ip_type><i+1>, upper case, per byte.
configure_ip(ip_type, addr) ==
    {<<Upper(ip_type) \o ToString(i), addr[i]>> : i \in 1..Len(addr)}

\* The PLLE2_BASE instance (lines 60-87).
PLLE2_BASE ==
    [CLKFBOUT_MULT |-> CLKFBOUT_MULT, DIVCLK_DIVIDE |-> DIVCLK_DIVIDE,
     CLKOUT |-> <<[DIVIDE |-> CLKOUT0_DIVIDE, PHASE |-> CLKOUT0_PHASE],
                  [DIVIDE |-> CLKOUT1_DIVIDE, PHASE |-> CLKOUT1_PHASE],
                  [DIVIDE |-> CLKOUT2_DIVIDE, PHASE |-> CLKOUT2_PHASE],
                  [DIVIDE |-> CLKOUT3_DIVIDE, PHASE |-> CLKOUT3_PHASE]>>]

\* The BUFGs (lines 88-91): clock domain |-> index of the CLKOUT driving it.
BUFG == [sys |-> 1, sys4x |-> 2, sys4x_dqs |-> 3, clk200 |-> 4]

\* Frequency of a PLL output for a reference frequency and a multiplier.
ClkoutFreq(ref, mult, divclk, divide) == (ref * mult) \div (divclk * divide)

\* Faulty variant: the directions towards sys_clk twice, the reverse never.
platform_command_one_way ==
    <<[cmd |-> "create_clock", name |-> "sys_clk", period |-> 10, net |-> "sys_clk"],
      [cmd |-> "create_clock", name |-> "eth_rx_clk", period |-> 8, net |-> "eth_clocks_tx"],
      [cmd |-> "create_clock", name |-> "eth_tx_clk", period |-> 8, net |-> "eth_clocks_rx"],
      [cmd |-> "set_false_path", from |-> "eth_rx_clk", to |-> "sys_clk"],
      [cmd |-> "set_false_path", from |-> "eth_rx_clk", to |-> "sys_clk"],
      [cmd |-> "set_false_path", from |-> "eth_tx_clk", to |-> "sys_clk"],
      [cmd |-> "set_false_path", from |-> "eth_tx_clk", to |-> "sys_clk"]>>

\* The text given to add_platform_command (lines 171-180), line by line.
platform_command ==
    <<[cmd |-> "create_clock", name |-> "sys_clk", period |-> 10, net |-> "sys_clk"],
      [cmd |-> "create_clock", name |-> "eth_rx_clk", period |-> 8, net |-> "eth_clocks_tx"],
      [cmd |-> "create_clock", name |-> "eth_tx_clk", period |-> 8, net |-> "eth_clocks_rx"],
      [cmd |-> "set_false_path", from |-> "eth_rx_clk", to |-> "sys_clk"],
      [cmd |-> "set_false_path", from |-> "sys_clk", to |-> "eth_rx_clk"],
      [cmd |-> "set_false_path", from |-> "eth_tx_clk", to |-> "sys_clk"],
      [cmd |-> "set_false_path", from |-> "sys_clk", to |-> "eth_tx_clk"]>>

\* The state before the module body runs, given what SoCSDRAM brings.
BuildStart(c, i, m) ==
    /\ SoCSDRAM_csr_map = c
    /\ SoCSDRAM_interrupt_map = i
    /\ SoCSDRAM_mem_map = m
    /\ BaseSoC_csr_map = EmptyDict
    /\ MiniSoC_csr_map = EmptyDict
    /\ MiniSoC_interrupt_map = EmptyDict
    /\ MiniSoC_mem_map = EmptyDict
    /\ mip = 1 /\ pc = "import" /\ ip = 1
    /\ args = [with_ethernet |-> FALSE, build |-> FALSE, load |-> FALSE,
               integrated_main_ram_size |-> 32768]
    /\ cls = "none"
    /\ submodules = <<>>
    /\ pll = <<>>
    /\ clock_domains = EmptyDict
    /\ sdram = <<>>
    /\ wb_slaves = <<>>
    /\ memory_regions = <<>>
    /\ constants = {}
    /\ kept = {}
    /\ platform_commands = <<>>
    /\ built = FALSE /\ loaded = FALSE

hwframe == <<hwvars, obsvars>>
libmaps == <<SoCSDRAM_csr_map, SoCSDRAM_interrupt_map, SoCSDRAM_mem_map>>
classmaps == <<BaseSoC_csr_map, MiniSoC_csr_map, MiniSoC_interrupt_map, MiniSoC_mem_map>>
socstate == <<submodules, pll, clock_domains, sdram, wb_slaves, memory_regions,
              constants, kept, platform_commands>>
mainstate == <<pc, ip, args, cls, built, loaded>>

\* A statement of the module body at mip, which then moves on.
AtModule(stmt) ==
    /\ pc = "import" /\ mip <= Len(ModuleBody) /\ ModuleBody[mip] = stmt
    /\ mip' = mip + 1
    /\ UNCHANGED <<hwframe, libmaps, socstate, mainstate>>

\* csr_map = {"ddrphy": 17, "dna": 18, "xadc": 19}
BaseSoC_csr_map_assign ==
    /\ AtModule("BaseSoC.csr_map=")
    /\ BaseSoC_csr_map' = BaseSoC_csr_map_display
    /\ UNCHANGED <<MiniSoC_csr_map, MiniSoC_interrupt_map, MiniSoC_mem_map>>

\* csr_map.update(SoCSDRAM.csr_map)
BaseSoC_csr_map_update ==
    /\ AtModule("BaseSoC.csr_map.update")
    /\ BaseSoC_csr_map' = DictUpdate(BaseSoC_csr_map, SoCSDRAM_csr_map)
    /\ UNCHANGED <<MiniSoC_csr_map, MiniSoC_interrupt_map, MiniSoC_mem_map>>

\* csr_map = {"ethphy": 30, "ethmac": 31}
MiniSoC_csr_map_assign ==
    /\ AtModule("MiniSoC.csr_map=")
    /\ MiniSoC_csr_map' = MiniSoC_csr_map_display
    /\ UNCHANGED <<BaseSoC_csr_map, MiniSoC_interrupt_map, MiniSoC_mem_map>>

\* csr_map.update(BaseSoC.csr_map)
MiniSoC_csr_map_update ==
    /\ AtModule("MiniSoC.csr_map.update")
    /\ MiniSoC_csr_map' = DictUpdate(MiniSoC_csr_map, BaseSoC_csr_map)
    /\ UNCHANGED <<BaseSoC_csr_map, MiniSoC_interrupt_map, MiniSoC_mem_map>>

\* interrupt_map = {"ethmac": 2}
MiniSoC_interrupt_map_assign ==
    /\ AtModule("MiniSoC.interrupt_map=")
    /\ MiniSoC_interrupt_map' = MiniSoC_interrupt_map_display
    /\ UNCHANGED <<BaseSoC_csr_map, MiniSoC_csr_map, MiniSoC_mem_map>>

\* interrupt_map.update(BaseSoC.interrupt_map)
MiniSoC_interrupt_map_update ==
    /\ AtModule("MiniSoC.interrupt_map.update")
    /\ MiniSoC_interrupt_map' = DictUpdate(MiniSoC_interrupt_map, BaseSoC_interrupt_map)
    /\ UNCHANGED <<BaseSoC_csr_map, MiniSoC_csr_map, MiniSoC_mem_map>>

\* mem_map = {"ethmac": 0x30000000}
MiniSoC_mem_map_assign ==
    /\ AtModule("MiniSoC.mem_map=")
    /\ MiniSoC_mem_map' = MiniSoC_mem_map_display
    /\ UNCHANGED <<BaseSoC_csr_map, MiniSoC_csr_map, MiniSoC_interrupt_map>>

\* mem_map.update(BaseSoC.mem_map)
MiniSoC_mem_map_update ==
    /\ AtModule("MiniSoC.mem_map.update")
    /\ MiniSoC_mem_map' = DictUpdate(MiniSoC_mem_map, BaseSoC_mem_map)
    /\ UNCHANGED <<BaseSoC_csr_map, MiniSoC_csr_map, MiniSoC_interrupt_map>>

\* main(), lines 189-201: parse the arguments, pick the class, call it.
main_parse_args ==
    /\ pc = "import" /\ mip <= Len(ModuleBody) /\ ModuleBody[mip] = "main"
    /\ \E e \in BOOLEAN, b \in BOOLEAN, l \in BOOLEAN, r \in MainRamSizes :
          /\ args' = [with_ethernet |-> e, build |-> b, load |-> l,
                      integrated_main_ram_size |-> r]
          /\ cls' = IF e THEN "MiniSoC" ELSE "BaseSoC"
    /\ pc' = "ctor" /\ ip' = 1
    /\ mip' = mip + 1
    /\ UNCHANGED <<hwframe, libmaps, classmaps, socstate, built, loaded>>

\* A statement of the running constructor at ip, which then moves on; the
\* constructor returns to main() after its last statement.
AtCtor(stmt) ==
    /\ pc = "ctor" /\ ip <= Len(Ctor) /\ Ctor[ip] = stmt
    /\ ip' = ip + 1
    /\ pc' = IF ip = Len(Ctor) THEN "constructed" ELSE "ctor"
    /\ UNCHANGED <<hwframe, libmaps, classmaps, mip, args, cls, built, loaded>>

\* SoCSDRAM.__init__(self, platform, clk_freq=..., ...) (lines 120-125): the
\* library's constructor; what it instantiates is not this file's.
SoCSDRAM_init ==
    /\ AtCtor("SoCSDRAM.__init__")
    /\ UNCHANGED socstate

\* self.submodules.crg = _CRG(platform) (line 127; _CRG.__init__ 44-104).
crg ==
    /\ AtCtor("crg")
    /\ submodules' = Append(submodules, "crg")
    /\ pll' = PLLE2_BASE
    /\ clock_domains' = BUFG
    /\ UNCHANGED <<sdram, wb_slaves, memory_regions, constants, kept, platform_commands>>

\* self.submodules.dna = dna.DNA()
dna ==
    /\ AtCtor("dna")
    /\ submodules' = Append(submodules, "dna")
    /\ UNCHANGED <<pll, clock_domains, sdram, wb_slaves, memory_regions, constants,
                   kept, platform_commands>>

\* self.submodules.xadc = xadc.XADC()
xadc ==
    /\ AtCtor("xadc")
    /\ submodules' = Append(submodules, "xadc")
    /\ UNCHANGED <<pll, clock_domains, sdram, wb_slaves, memory_regions, constants,
                   kept, platform_commands>>

\* if not self.integrated_main_ram_size: ddrphy, register_sdram (131-135).
ddrphy ==
    /\ AtCtor("ddrphy")
    /\ IF args.integrated_main_ram_size = 0
       THEN /\ submodules' = Append(submodules, "ddrphy")
            /\ sdram' = Append(sdram, "ddrphy")
       ELSE UNCHANGED <<submodules, sdram>>
    /\ UNCHANGED <<pll, clock_domains, wb_slaves, memory_regions, constants, kept,
                   platform_commands>>

\* self.submodules.ethphy = LiteEthPHYRGMII(...)
ethphy ==
    /\ AtCtor("ethphy")
    /\ submodules' = Append(submodules, "ethphy")
    /\ UNCHANGED <<pll, clock_domains, sdram, wb_slaves, memory_regions, constants,
                   kept, platform_commands>>

\* self.submodules.ethmac = LiteEthMAC(phy=self.ethphy, ...)
ethmac ==
    /\ AtCtor("ethmac")
    /\ submodules' = Append(submodules, "ethmac")
    /\ UNCHANGED <<pll, clock_domains, sdram, wb_slaves, memory_regions, constants,
                   kept, platform_commands>>

\* self.add_wb_slave(mem_decoder(self.mem_map["ethmac"]), self.ethmac.bus)
add_wb_slave ==
    /\ AtCtor("add_wb_slave")
    /\ wb_slaves' = Append(wb_slaves, Self_mem_map["ethmac"])
    /\ UNCHANGED <<submodules, pll, clock_domains, sdram, memory_regions, constants,
                   kept, platform_commands>>

\* self.add_memory_region("ethmac", self.mem_map["ethmac"] | self.shadow_base, 0x2000)
\* (0x2000 bytes are 2 units)
add_memory_region ==
    /\ AtCtor("add_memory_region")
    /\ memory_regions' = Append(memory_regions,
           <<"ethmac", BitOr(Self_mem_map["ethmac"], shadow_base), 2>>)
    /\ UNCHANGED <<submodules, pll, clock_domains, sdram, wb_slaves, constants,
                   kept, platform_commands>>

\* self.configure_ip("localip", [192, 168, 1, 42])
configure_ip_localip ==
    /\ AtCtor("configure_ip_localip")
    /\ constants' = constants \cup configure_ip("localip", <<192, 168, 1, 42>>)
    /\ UNCHANGED <<submodules, pll, clock_domains, sdram, wb_slaves, memory_regions,
                   kept, platform_commands>>

\* self.configure_ip("remoteip", [192, 168, 1, 10])
configure_ip_remoteip ==
    /\ AtCtor("configure_ip_remoteip")
    /\ constants' = constants \cup configure_ip("remoteip", <<192, 168, 1, 10>>)
    /\ UNCHANGED <<submodules, pll, clock_domains, sdram, wb_slaves, memory_regions,
                   kept, platform_commands>>

\* self.specials += [Keep(...cd_eth_rx.clk), Keep(...cd_eth_tx.clk)]
Keep ==
    /\ AtCtor("Keep")
    /\ kept' = kept \cup {"eth_rx_clk", "eth_tx_clk"}
    /\ UNCHANGED <<submodules, pll, clock_domains, sdram, wb_slaves, memory_regions,
                   constants, platform_commands>>

\* self.platform.add_platform_command("""...""")
add_platform_command ==
    /\ AtCtor("add_platform_command")
    /\ platform_commands' = platform_commands \o platform_command
    /\ UNCHANGED <<submodules, pll, clock_domains, sdram, wb_slaves, memory_regions,
                   constants, kept>>

\* builder = Builder(...); if args.build: builder.build();
\* if args.load: prog.load_bitstream(...)   (lines 202-209)
main_build_load ==
    /\ pc = "constructed"
    /\ pc' = "done"
    /\ built' = args.build
    /\ loaded' = args.load
    /\ UNCHANGED <<hwframe, libmaps, classmaps, socstate, mip, ip, args, cls>>

BuildInit ==
    /\ HWInit /\ rst = 0
    /\ \E c \in ParentMaps(ParentCsr), i \in ParentMaps(ParentInterrupt),
          m \in ParentMaps(ParentMem) : BuildStart(c, i, m)

BuildNext ==
    \/ BaseSoC_csr_map_assign \/ BaseSoC_csr_map_update
    \/ MiniSoC_csr_map_assign \/ MiniSoC_csr_map_update
    \/ MiniSoC_interrupt_map_assign \/ MiniSoC_interrupt_map_update
    \/ MiniSoC_mem_map_assign \/ MiniSoC_mem_map_update
    \/ main_parse_args
    \/ SoCSDRAM_init \/ crg \/ dna \/ xadc \/ ddrphy
    \/ ethphy \/ ethmac \/ add_wb_slave \/ add_memory_region
    \/ configure_ip_localip \/ configure_ip_remoteip \/ Keep
    \/ add_platform_command
    \/ main_build_load

BuildSpec == BuildInit /\ [][BuildNext]_vars

\* The hardware runs with the elaboration state as it is before the import.
Init == HWInit /\ BuildStart(EmptyDict, EmptyDict, EmptyDict)

Next == LockLost \/ LockGained \/ CpuResetChange \/ Tick

Spec == Init /\ [][Next]_vars

\* ------------------------------------------------------------ claims (Spec)

\* C1, as stated: 15 clk200 edges after the sequencer was left in Held
\* (reset_counter = 15, ic_reset = 1), with no reset of the domain since,
\* ic_reset is deasserted.
C1_Original ==
    (heldTicks = 15 /\ clk200_rst = 0) => ic_reset = 0

\* C1, amended: the 15 edges bring reset_counter from 15 to 0 with ic_reset
\* still asserted; the 16th edge deasserts it.  So n edges after Held the
\* counter is 15 - n and ic_reset is 1 for n <= 15, and from the 16th edge on
\* the counter is 0 and ic_reset is 0.
C1_Timing ==
    /\ heldTicks <= 15 => (reset_counter = 15 - heldTicks /\ ic_reset = 1)
    /\ heldTicks >= 16 => (reset_counter = 0 /\ ic_reset = 0)

C1_Witness ==
    heldTicks = 16 /\ clk200_rst = 0 /\ ic_reset = 0 /\ reset_counter = 0

\* C2, as stated: the lock_lost event itself leaves the sequencer in Held,
\* reset_counter = 15 and ic_reset asserted.
C2_Original ==
    [][(pll_locked = 1 /\ pll_locked' = 0) =>
         (reset_counter' = 15 /\ ic_reset' = 1)]_vars

\* C2, amended: a lock_lost event asserts cd_clk200.rst at once, and the first
\* clk200 edge after it leaves reset_counter = 15 and ic_reset = 1, whatever
\* the state was; the sequencer stays so while the PLL is unlocked, and
\* ic_reset stays asserted for the first 15 edges after lock is regained.
C2_LockLost ==
    /\ pll_locked = 0 => clk200_rst = 1
    /\ (pll_locked = 0 /\ lockTicks >= 1) => (reset_counter = 15 /\ ic_reset = 1)
    /\ (pll_locked = 1 /\ lockTicks = 1) => (reset_counter = 15 /\ ic_reset = 1)
    /\ (pll_locked = 1 /\ lockTicks \in 1..15) => ic_reset = 1

\* Lock was lost after a release, regained, and 15 edges have passed.
C2_Witness ==
    lostSinceRelease /\ pll_locked = 1 /\ rst = 0 /\ lockTicks = 15 /\ ic_reset = 1

\* C3, as stated: with ic_reset deasserted and no lock_lost event, no step
\* re-asserts ic_reset or reloads the counter.
C3_Original ==
    [][(ic_reset = 0 /\ ~lostSinceRelease /\ ~lostSinceRelease') =>
         (ic_reset' = 0 /\ reset_counter' = reset_counter)]_vars

\* C3, amended: once deasserted, ic_reset stays deasserted and the counter
\* stays put for as long as cd_clk200.rst is deasserted; cd_clk200.rst is
\* asserted only by the PLL losing lock or by cpu_reset going high.
C3_Stable ==
    /\ [][(ic_reset = 0 /\ clk200_rst = 0) =>
            (ic_reset' = 0 /\ reset_counter' = reset_counter)]_vars
    /\ [][(clk200_rst = 0 /\ clk200_rst' = 1) =>
            ((pll_locked = 1 /\ pll_locked' = 0) \/ (rst = 0 /\ rst' = 1))]_vars

\* Released, and still released several edges later.
C3_Witness ==
    ic_reset = 0 /\ clk200_rst = 0 /\ heldTicks >= 18

\* C4, as stated: wherever ic_reset is deasserted the PLL has been locked for
\* at least 15 cycles of the reference clock.
C4_Original ==
    ic_reset = 0 => (pll_locked = 1 /\ RefCycles(lockTicks) >= 15)

\* C4, amended: wherever ic_reset is deasserted and cd_clk200 is out of reset,
\* the PLL has been locked for at least 15 cycles of clk200, which is 7 whole
\* cycles of the reference clock.
C4_Debounce ==
    (ic_reset = 0 /\ clk200_rst = 0) =>
        (pll_locked = 1 /\ lockTicks >= 15 /\ RefCycles(lockTicks) >= 7)

\* The earliest release after lock: 2 edges of synchronizer, 16 of countdown.
C4_Witness ==
    ic_reset = 0 /\ clk200_rst = 0 /\ pll_locked = 1 /\ lockTicks = 18

\* Edges for the synchronizer to release and the countdown to run out.
SettleTicks == 2 + reset_counter_reset + 1

\* C10, as stated: with the PLL locked and cpu_reset held at the level that
\* releases cd_sys, once the inputs have been stable for SettleTicks edges
\* cd_sys and cd_clk200 are both out of reset and ic_reset is deasserted.
C10_Claim ==
    (pll_locked = 1 /\ rst = 1 /\ stableTicks >= SettleTicks) =>
        (sys_rst = 0 /\ clk200_rst = 0 /\ ic_reset = 0)

\* What the netlist does instead: cd_sys out of reset and the IDELAYCTRL
\* released never coincide.
NeverBothRunning == ~(sys_rst = 0 /\ ic_reset = 0)

\* ------------------------------------------------------- claims (BuildSpec)
\* The class bodies have run: every map is assigned and updated.
ClassesDefined == mip >= Len(ModuleBody)

InSeq(x, q) == \E i \in 1..Len(q) : q[i] = x
Count(x, q) == Cardinality({i \in 1..Len(q) : q[i] = x})
IsPrefix(q, t) == Len(q) <= Len(t) /\ \A i \in 1..Len(q) : q[i] = t[i]

\* Every name of both the child's display and the parent's map has the child's value.
ChildWins(own, parent, merged) ==
    \A n \in DOMAIN own \cap DOMAIN parent : merged[n] = own[n]

\* Every name of the parent's map alone has the parent's value in the merge.
ParentResolves(own, parent, merged) ==
    \A n \in DOMAIN parent \ DOMAIN own : n \in DOMAIN merged /\ merged[n] = parent[n]

\* C5: for each kind of map and each name that both a class's own display and
\* its parent's map hold, the class's merged map holds the class's own value
\* (BaseSoC over SoCSDRAM, MiniSoC over BaseSoC).
C5_ChildWins ==
    ClassesDefined =>
        /\ ChildWins(BaseSoC_csr_map_display, SoCSDRAM_csr_map, BaseSoC_csr_map)
        /\ ChildWins(MiniSoC_csr_map_display, BaseSoC_csr_map, MiniSoC_csr_map)
        /\ ChildWins(MiniSoC_interrupt_map_display, BaseSoC_interrupt_map,
                     MiniSoC_interrupt_map)
        /\ ChildWins(MiniSoC_mem_map_display, BaseSoC_mem_map, MiniSoC_mem_map)

\* The resolution half of C6.
C6_Resolution ==
    ClassesDefined =>
        /\ ParentResolves(BaseSoC_csr_map_display, SoCSDRAM_csr_map, BaseSoC_csr_map)
        /\ ParentResolves(MiniSoC_csr_map_display, BaseSoC_csr_map, MiniSoC_csr_map)
        /\ ParentResolves(MiniSoC_interrupt_map_display, BaseSoC_interrupt_map,
                          MiniSoC_interrupt_map)
        /\ ParentResolves(MiniSoC_mem_map_display, BaseSoC_mem_map, MiniSoC_mem_map)
        /\ \A n \in DOMAIN BaseSoC_csr_map_display \ DOMAIN SoCSDRAM_csr_map :
              /\ BaseSoC_csr_map[n] = BaseSoC_csr_map_display[n]
              /\ MiniSoC_csr_map[n] = BaseSoC_csr_map_display[n]
        /\ \A n \in DOMAIN MiniSoC_csr_map_display \ DOMAIN SoCSDRAM_csr_map :
              n \notin DOMAIN BaseSoC_csr_map /\ n \in DOMAIN MiniSoC_csr_map
        /\ \A n \in DOMAIN MiniSoC_interrupt_map_display \ DOMAIN SoCSDRAM_interrupt_map :
              n \notin DOMAIN BaseSoC_interrupt_map /\ n \in DOMAIN MiniSoC_interrupt_map
        /\ \A n \in DOMAIN MiniSoC_mem_map_display \ DOMAIN SoCSDRAM_mem_map :
              n \notin DOMAIN BaseSoC_mem_map /\ n \in DOMAIN MiniSoC_mem_map

\* C6: a name only a parent class defines resolves from every descendant to
\* the parent's value (ddrphy, dna, xadc to 17, 18, 19 from MiniSoC); a name
\* only MiniSoC defines is absent from BaseSoC's map; and no step that builds
\* a class's map changes the map of an ancestor, once that map is built.
C6_OneWay ==
    /\ []C6_Resolution
    /\ [][/\ SoCSDRAM_csr_map' = SoCSDRAM_csr_map
          /\ SoCSDRAM_interrupt_map' = SoCSDRAM_interrupt_map
          /\ SoCSDRAM_mem_map' = SoCSDRAM_mem_map
          /\ ModuleBody[Min(mip, Len(ModuleBody))] \notin
                {"BaseSoC.csr_map=", "BaseSoC.csr_map.update"} =>
                    BaseSoC_csr_map' = BaseSoC_csr_map]_vars

\* The library brings a name of its own, and none of BaseSoC's.
C6_Witness ==
    /\ ClassesDefined
    /\ "uart" \in DOMAIN SoCSDRAM_csr_map /\ "dna" \notin DOMAIN SoCSDRAM_csr_map
    /\ "ethmac" \notin DOMAIN SoCSDRAM_csr_map
    /\ MiniSoC_csr_map["uart"] = 2 /\ MiniSoC_csr_map["dna"] = 18
    /\ "ethphy" \notin DOMAIN BaseSoC_csr_map

\* Reference frequencies (MHz) and multipliers the ratio is evaluated for.
RefFreqs == {50, 100, 125, 200}
Multipliers == 2..16

\* C7: once _CRG is instantiated, the domains sys4x and sys4x_dqs are driven
\* by PLL outputs of one PLL (one multiplier) with the same divider, so of the
\* same frequency for every reference frequency and multiplier, and the phase
\* of sys4x_dqs is that of sys4x plus exactly 135 degrees.
C7_PhasePair ==
    InSeq("crg", submodules) =>
        LET data == pll.CLKOUT[clock_domains["sys4x"]]
            dqs == pll.CLKOUT[clock_domains["sys4x_dqs"]]
        IN /\ clock_domains["sys4x"] # clock_domains["sys4x_dqs"]
           /\ dqs.DIVIDE = data.DIVIDE
           /\ dqs.PHASE - data.PHASE = 135
           /\ \A ref \in RefFreqs, m \in Multipliers :
                 ClkoutFreq(ref, m, pll.DIVCLK_DIVIDE, dqs.DIVIDE)
                   = ClkoutFreq(ref, m, pll.DIVCLK_DIVIDE, data.DIVIDE)
           /\ ClkoutFreq(100, pll.CLKFBOUT_MULT, pll.DIVCLK_DIVIDE, dqs.DIVIDE) = 200

C7_Witness ==
    /\ InSeq("crg", submodules) /\ pc = "done"
    /\ pll.CLKOUT[clock_domains["sys4x_dqs"]].PHASE = 135

FalsePath(a, b) == [cmd |-> "set_false_path", from |-> a, to |-> b]

\* C8: when MiniSoC is constructed, for each clock kept for the Ethernet PHY
\* (eth_rx_clk, eth_tx_clk) the commands given to the platform hold the false
\* path from it to sys_clk exactly once and from sys_clk to it exactly once,
\* and no other false path.
C8_FalsePaths ==
    (cls = "MiniSoC" /\ pc \in {"constructed", "done"}) =>
        /\ kept = {"eth_rx_clk", "eth_tx_clk"}
        /\ \A d \in kept :
              /\ Count(FalsePath(d, "sys_clk"), platform_commands) = 1
              /\ Count(FalsePath("sys_clk", d), platform_commands) = 1
        /\ Cardinality({i \in 1..Len(platform_commands) :
                          platform_commands[i].cmd = "set_false_path"})
             = 2 * Cardinality(kept)

C8_Witness ==
    /\ cls = "MiniSoC" /\ pc = "done" /\ kept # {}
    /\ InSeq(FalsePath("sys_clk", "eth_tx_clk"), platform_commands)

\* The order of instantiation the source gives for the variant being built.
ExpectedOrder ==
    <<"crg", "dna", "xadc">>
    \o (IF args.integrated_main_ram_size = 0 THEN <<"ddrphy">> ELSE <<>>)
    \o (IF cls = "MiniSoC" THEN <<"ethphy", "ethmac">> ELSE <<>>)

TypeOK ==
    /\ pll_locked \in {0, 1} /\ rst \in {0, 1}
    /\ reset_counter \in 0..15 /\ ic_reset \in {0, 1}

====
